---- MODULE Spec2Model ----
(***************************************************************************)
(* McSAS: Monte-Carlo fitting of small-angle scattering patterns.          *)
(* Model of McSAS.__init__ / setData / analyse / mcFit /                   *)
(* optimScalingAndBackground / histogram (src/McSAS.py), of                *)
(* Calculator.stop (src/gui/calc.py), of AlgorithmBase and of              *)
(* MainWindow.calc and DataList.updateData.                                *)
(*                                                                         *)
(* Numbers are fixed-point: the integer n stands for the number n/Scale.   *)
(* The IEEE values the code produces by dividing by zero are kept as the   *)
(* distinct values Inf and NaN and compared as numpy compares them (every  *)
(* comparison with NaN is false); the sign of an infinite value is not     *)
(* kept.                                                                   *)
(***************************************************************************)
EXTENDS Integers, Sequences, FiniteSets, TLC

\* ------------------------------------------------------------------ bounds
\* number of contributions (McSASParameters.numContribs, scaled down)
numContribs == 2
\* number of repetitions (McSASParameters.numReps, scaled down)
numReps == 2
\* iteration budget of one attempt (McSASParameters.maxIterations, scaled down)
maxIterations == 2
\* maxRetries is drawn from 0..MaxRetriesBound
MaxRetriesBound == 1
\* number of histogram bins (McSASParameters.histogramBins, scaled down)
histogramBins == 3
\* number of McSAS(...) runs made in one process
MaxRuns == 2

\* ------------------------------------------------------ fixed-point numbers
\* the integer n stands for n/Scale: four decimals
Scale == 100 * 100

\* numpy.inf and numpy.nan
Inf == 2147483647
NaN == -2147483647

IsFinite(x) == x # Inf /\ x # NaN

\* x > y as numpy evaluates it
Gt(x, y) == x # NaN /\ y # NaN /\ x > y

\* x < y as numpy evaluates it
Lt(x, y) == Gt(y, x)

\* x <= y as numpy evaluates it
Le(x, y) == x # NaN /\ y # NaN /\ x <= y

Abs(x) == IF x < 0 THEN -x ELSE x

\* x + y as numpy evaluates it
Add(x, y) ==
    IF x = NaN \/ y = NaN THEN NaN
    ELSE IF x = Inf \/ y = Inf THEN Inf
    ELSE x + y

\* x - y as numpy evaluates it
Sub(x, y) ==
    IF x = NaN \/ y = NaN THEN NaN
    ELSE IF x = Inf /\ y = Inf THEN NaN
    ELSE IF x = Inf \/ y = Inf THEN Inf
    ELSE x - y

\* a * b for a, b >= 0, rounded to the nearest multiple of 1/Scale; the
\* product is taken in four parts so that no part leaves the 32-bit range
MulPos(a, b) ==
    IF a < 46340 /\ b < 46340 THEN (a * b + Scale \div 2) \div Scale
    ELSE
    (a \div Scale) * (b \div Scale) * Scale
        + (a \div Scale) * (b % Scale)
        + (a % Scale) * (b \div Scale)
        + ((a % Scale) * (b % Scale) + Scale \div 2) \div Scale

\* x * y as numpy evaluates it
Mul(x, y) ==
    IF x = NaN \/ y = NaN THEN NaN
    ELSE IF x = Inf \/ y = Inf THEN (IF x = 0 \/ y = 0 THEN NaN ELSE Inf)
    ELSE IF (x < 0) = (y < 0) THEN MulPos(Abs(x), Abs(y))
    ELSE -MulPos(Abs(x), Abs(y))

\* long division: the digits of r/y after the point, one per factor 10 of s,
\* the last one rounded
RECURSIVE DivDigits(_, _, _, _)
DivDigits(r, y, s, acc) ==
    IF s = 1 THEN acc + (IF 2 * r >= y THEN 1 ELSE 0)
    ELSE DivDigits((r * 10) % y, y, s \div 10, acc * 10 + (r * 10) \div y)

\* a / b for a >= 0, b > 0, rounded to the nearest multiple of 1/Scale
RECURSIVE DivPos(_, _)
DivPos(a, b) ==
    IF a < 200000 /\ b < 20000000 THEN (a * Scale + b \div 2) \div b
    ELSE IF b > 200000000 THEN DivPos(a \div 10, b \div 10)
    ELSE DivDigits(a % b, b, Scale, a \div b)

\* x / y as numpy evaluates it
Div(x, y) ==
    IF x = NaN \/ y = NaN THEN NaN
    ELSE IF y = 0 THEN (IF x = 0 THEN NaN ELSE Inf)
    ELSE IF x = Inf THEN (IF y = Inf THEN NaN ELSE Inf)
    ELSE IF y = Inf THEN 0
    ELSE IF (x < 0) = (y < 0) THEN DivPos(Abs(x), Abs(y))
    ELSE -DivPos(Abs(x), Abs(y))

\* x ** n for a natural number n
RECURSIVE Pow(_, _)
Pow(x, n) == IF n = 0 THEN Scale ELSE Mul(x, Pow(x, n - 1))

\* the largest natural number whose square is at most n, by Newton's
\* iteration descending from s
RECURSIVE IntegerSqrt(_, _)
IntegerSqrt(n, s) ==
    IF (s + n \div s) \div 2 >= s THEN s
    ELSE IntegerSqrt(n, (s + n \div s) \div 2)

\* long-hand square root: s is the root found so far and rem what it leaves;
\* every factor 100 of sc adds the decimal digit d to s, the largest one that
\* leaves a remainder >= 0; at the end s is rounded to the nearest
RECURSIVE SqrtDigits(_, _, _)
SqrtDigits(s, rem, sc) ==
    IF sc = 1 THEN s + (IF rem > s THEN 1 ELSE 0)
    ELSE SqrtDigits(
            10 * s + (CHOOSE d \in 0..9 :
                        /\ 20 * s * d + d * d <= 100 * rem
                        /\ d = 9 \/ 20 * s * (d + 1) + (d + 1) * (d + 1) > 100 * rem),
            100 * rem - (CHOOSE e \in 0..9 :
                        /\ 20 * s * e + e * e <= 100 * rem
                        /\ e = 9 \/ 20 * s * (e + 1) + (e + 1) * (e + 1) > 100 * rem)
                        * (20 * s + (CHOOSE e \in 0..9 :
                        /\ 20 * s * e + e * e <= 100 * rem
                        /\ e = 9 \/ 20 * s * (e + 1) + (e + 1) * (e + 1) > 100 * rem)),
            sc \div 100)

\* numpy.sqrt: the root of the integer x and its remainder, then one decimal
\* digit for every factor 100 of Scale
sqrt(x) ==
    IF x = NaN THEN NaN
    ELSE IF x = Inf THEN Inf
    ELSE IF x < 0 THEN NaN
    ELSE IF x = 0 THEN 0
    ELSE SqrtDigits(IntegerSqrt(x, x),
                    x - IntegerSqrt(x, x) * IntegerSqrt(x, x), Scale)

\* the n-th root of x >= 1 by bisection of [lo, hi], lo ** n <= x < hi ** n
RECURSIVE RootIter(_, _, _, _)
RootIter(x, n, lo, hi) ==
    IF hi - lo <= 1 THEN lo
    ELSE IF Pow((lo + hi) \div 2, n) <= x
         THEN RootIter(x, n, (lo + hi) \div 2, hi)
         ELSE RootIter(x, n, lo, (lo + hi) \div 2)

Root(x, n) == RootIter(x, n, Scale, x + 1)

\* x ** e for an exponent e that is a multiple of one half
Power(x, e) ==
    IF ((2 * e) \div Scale) % 2 = 0 THEN Pow(x, e \div Scale)
    ELSE sqrt(Pow(x, (2 * e) \div Scale))

\* ------------------------------------------------------------ vector helpers
\* numpy.sum of the first n entries of s
RECURSIVE SumSeq(_, _)
SumSeq(s, n) == IF n = 0 THEN 0 ELSE Add(SumSeq(s, n - 1), s[n])

\* ndarray.max() of the first n entries of s
RECURSIVE MaxSeq(_, _)
MaxSeq(s, n) ==
    IF n = 1 THEN s[1]
    ELSE IF s[n] = NaN \/ MaxSeq(s, n - 1) = NaN THEN NaN
    ELSE IF s[n] > MaxSeq(s, n - 1) THEN s[n] ELSE MaxSeq(s, n - 1)

\* ndarray.min() of the first n entries of s
RECURSIVE MinSeq(_, _)
MinSeq(s, n) ==
    IF n = 1 THEN s[1]
    ELSE IF s[n] = NaN \/ MinSeq(s, n - 1) = NaN THEN NaN
    ELSE IF s[n] < MinSeq(s, n - 1) THEN s[n] ELSE MinSeq(s, n - 1)

\* numpy.argmax and numpy.argmin (0-based, the first position when several,
\* the position of the first nan when there is one)
RECURSIVE ArgMax(_, _)
ArgMax(s, n) ==
    IF n = 1 THEN 0
    ELSE IF s[ArgMax(s, n - 1) + 1] = NaN THEN ArgMax(s, n - 1)
    ELSE IF s[n] = NaN \/ s[n] > s[ArgMax(s, n - 1) + 1] THEN n - 1
    ELSE ArgMax(s, n - 1)

RECURSIVE ArgMin(_, _)
ArgMin(s, n) ==
    IF n = 1 THEN 0
    ELSE IF s[ArgMin(s, n - 1) + 1] = NaN THEN ArgMin(s, n - 1)
    ELSE IF s[n] = NaN \/ s[n] < s[ArgMin(s, n - 1) + 1] THEN n - 1
    ELSE ArgMin(s, n - 1)

\* the array holding the values of f at 1..n (numpy.zeros filled in place)
RECURSIVE array(_, _)
array(f, n) == IF n = 0 THEN <<>> ELSE Append(array(f, n - 1), f[n])

\* ------------------------------------------------------------------ dataset
\* the q vector of the prepared dataset (data[:, 0]): 1, 2, 3
q == <<10000, 20000, 30000>>
\* the measured intensity (data[:, 1]): 65, 12, 7
intensity == <<650000, 120000, 70000>>
\* the uncertainty columns a caller may supply (data[:, 2]): all 1 or all 0
ErrorChoices == {<<10000, 10000, 10000>>, <<0, 0, 0>>}

NQ == Len(q)
QIdx == 1..NQ

\* numpy.pi
Pi == 31416

\* numpy.diff
diff(s) == [i \in 1..(Len(s) - 1) |-> s[i + 1] - s[i]]

\* SASData.setOrigin: pi / array([q.max(), min(abs(q.min()), abs(diff(q).min()))])
sizeBounds ==
    <<Div(Pi, MaxSeq(q, NQ)),
      Div(Pi, IF Abs(MinSeq(q, NQ)) < Abs(MinSeq(diff(q), NQ - 1))
              THEN Abs(MinSeq(q, NQ)) ELSE Abs(MinSeq(diff(q), NQ - 1)))>>

\* --------------------------------------------------------------- Sphere model
\* Radius.valueRange as the class declares it
RadiusValueRange == <<0, Inf>>

\* Sphere.updateParamBounds for a list of two bounds
updateParamBounds(bounds) ==
    <<IF bounds[1] < bounds[2] THEN bounds[1] ELSE bounds[2],
      IF bounds[1] < bounds[2] THEN bounds[2] ELSE bounds[1]>>

\* ParticleModel.compensationExponent: 0.5
compensationExponent == 5000

\* Sphere.vol: (pi*4./3.) * paramValues**(3. * compensationExponent)
vol(r, exponent) == Mul(Div(4 * Pi, 3 * Scale), Power(r, 3 * exponent))

\* Sphere.ff: 3. * (sin(qr) - qr * cos(qr)) / (qr**3.) at qr = q[k] * r, for
\* the radii the model draws: pi/6, pi/3, 5 pi/9, 7 pi/9, pi
ff(r) ==
    CASE r = 5236  -> <<9729, 8945, 7740>>
      [] r = 10472 -> <<8945, 6248, 3040>>
      [] r = 17453 -> <<7267, 2073, -728>>
      [] r = 24435 -> <<5171, -471, -213>>
      [] r = 31416 -> <<3040, -760, 338>>

\* the radii of the model
Radii == {5236, 10472, 17453, 24435, 31416}

\* ParticleModel.smear: the identity
smear(arg) == arg

\* (mutant) the draw includes the upper end of the value range
randUniformClosed(count, range) ==
    [1..count -> {r \in Radii : range[1] <= r /\ r <= range[2]}]

\* ParticleModel.randUniform(count): numpy.random.uniform draws every value
\* from [min(valueRange), max(valueRange))
randUniform(count, range) ==
    [1..count -> {r \in Radii : range[1] <= r /\ r < range[2]}]

\* ------------------------------------------------- optimScalingAndBackground
\* csqr_v1: sum(((intObs - intCalc)/error)**2) over the first k points
RECURSIVE SumTerms(_, _, _, _)
SumTerms(intObs, fit, error, k) ==
    IF k = 0 THEN 0
    ELSE Add(SumTerms(intObs, fit, error, k - 1),
             Mul(Div(Sub(intObs[k], fit[k]), error[k]),
                 Div(Sub(intObs[k], fit[k]), error[k])))

\* csqr_v1: sum(((intObs - intCalc)/error)**2) / size(intObs)
csqr_v1(intObs, fit, error) ==
    Div(SumTerms(intObs, fit, error, Len(intObs)), Len(intObs) * Scale)

\* sc[0]*intCalc + sc[1], where intCalc is the quotient num/den
ScaledIntensity(intCalc, sc) ==
    [k \in QIdx |-> Add(Div(Mul(sc[1], intCalc.num[k]), intCalc.den), sc[2])]

\* the weights 1/error**2 of the points in the sum of squared residuals
Weights(error) == [k \in QIdx |-> Mul(Div(Scale, error[k]), Div(Scale, error[k]))]

\* the weighted sum of (x - xb) * (y - yb) over the first n points
RECURSIVE WeightedSum(_, _, _, _, _, _)
WeightedSum(w, x, xb, y, yb, n) ==
    IF n = 0 THEN 0
    ELSE WeightedSum(w, x, xb, y, yb, n - 1)
            + Mul(w[n], Mul(x[n] - xb, y[n] - yb))

Ones == [k \in QIdx |-> Scale]

\* the weighted mean of x
WeightedMean(w, x) ==
    Div(WeightedSum(w, x, 0, Ones, 0, NQ), WeightedSum(w, Ones, 0, Ones, 0, NQ))

\* the line a*x + b through the weighted means xb, yb
Line(a, xb, yb) == <<a, yb - Mul(a, xb)>>

\* the line through the means that minimises the sum of squared residuals:
\* a = Sxy/Sxx.  When x is zero at every point the residuals do not depend on
\* a, which stays at its guess a0.  When x is the same non-zero value at
\* every point (Sxx = 0) every (a, b) with a*x + b = yb is a minimum and the
\* one the search stops at depends on the path of the optimiser: no value is
\* defined for it here, and no call considered has such an x.
LineThrough(intObs, x, w, xb, yb, a0) ==
    CASE WeightedSum(w, x, xb, x, xb, NQ) # 0 ->
             Line(Div(WeightedSum(w, x, xb, intObs, yb, NQ),
                      WeightedSum(w, x, xb, x, xb, NQ)), xb, yb)
      [] \A k \in QIdx : x[k] = 0 -> Line(a0, xb, yb)

\* the least-squares line for intObs against x with the weights w
LeastSquares(intObs, x, w, a0) ==
    LineThrough(intObs, x, w, WeightedMean(w, x), WeightedMean(w, intObs), a0)

\* what the solver returns for the line a*num + b: the scaling for num/den,
\* the background and the reduced chi-square (lines 777-781)
Fitted(intObs, intCalc, error, line) ==
    [sc |-> <<Mul(line[1], intCalc.den), line[2]>>,
     conval |-> csqr_v1(intObs,
                    [k \in QIdx |-> Mul(line[1], intCalc.num[k]) + line[2]],
                    error)]

\* optimScalingAndBackground(intObs, intCalc, error, sc): the scaling and
\* background that minimise csqr_v1, and the reduced chi-square reached.
\*  - a non-finite initial guess, a non-finite calculated intensity or a zero
\*    uncertainty makes the residuals non-finite at every scaling: the search
\*    cannot move, the initial guess is returned with its csqr_v1;
\*  - otherwise the residuals are linear in (scaling, background) and the
\*    search ends in their least-squares minimum whatever the initial guess.
optimScalingAndBackground(intObs, intCalc, error, sc) ==
    IF \/ ~IsFinite(sc[1]) \/ ~IsFinite(sc[2])
       \/ ~IsFinite(intCalc.den) \/ intCalc.den = 0
       \/ \E k \in QIdx : error[k] = 0 \/ ~IsFinite(intCalc.num[k])
    THEN [sc |-> sc,
          conval |-> csqr_v1(intObs, ScaledIntensity(intCalc, sc), error)]
    ELSE Fitted(intObs, intCalc, error,
                LeastSquares(intObs, intCalc.num, Weights(error),
                             Div(sc[1], intCalc.den)))

\* ---------------------------------------------------------------------- mcFit
\* ffset**2 * vset**2 for one contribution: its intensity at every q (the
\* factors are multiplied before squaring, which keeps the resolution)
ContribIntensity(r, v) ==
    [k \in QIdx |-> Mul(Mul(ff(r)[k], v), Mul(ff(r)[k], v))]

\* iset.sum(axis = 1) over the first n contributions
RECURSIVE SumIntensity(_, _)
SumIntensity(iset, n) ==
    IF n = 0 THEN [k \in QIdx |-> 0]
    ELSE [k \in QIdx |-> SumIntensity(iset, n - 1)[k] + iset[n][k]]

\* sum(vset**2) over the first n contributions
RECURSIVE SumSquares(_, _)
SumSquares(v, n) ==
    IF n = 0 THEN 0 ELSE SumSquares(v, n - 1) + Mul(v[n], v[n])

\* lines 1193-1222: the contribution sets mcFit can start from
InitialSets(prior, startFromMinimum, range) ==
    IF Len(prior) = 0
    THEN IF startFromMinimum
         THEN {[i \in 1..numContribs |->
                   Mul(IF range[1] = 0 THEN Div(Pi, MaxSeq(q, NQ)) ELSE range[1],
                       Scale \div 2)]}
         ELSE randUniform(numContribs, range)
    ELSE IF Len(prior) # 0 THEN {prior}
    ELSE IF Len(prior) = numContribs THEN {prior}
    ELSE IF Len(prior) < numContribs
    THEN {prior \o extra :
            extra \in [1..(numContribs - Len(prior)) -> {prior[i] : i \in DOMAIN prior}]}
    ELSE [1..numContribs -> {prior[i] : i \in DOMAIN prior}]

\* lines 1235-1240: the total intensity accumulated one contribution at a
\* time; ffset has the shape (nq, 1) and so has the total
RECURSIVE LowMemoryTotal(_, _, _)
LowMemoryTotal(rset, vset, n) ==
    IF n = 0 THEN [k \in QIdx |-> 0]
    ELSE [k \in QIdx |-> LowMemoryTotal(rset, vset, n - 1)[k]
                            + ContribIntensity(rset[n], vset[n])[k]]

\* numpy shapes of an intensity: flat, or one column
Flat == <<NQ>>
Column == <<NQ, 1>>

\* lines 1246-1255: the initial guess and the two scaling passes for the
\* total intensity it and the total volume squared vst
SeedScaling(it, vst, error) ==
    optimScalingAndBackground(intensity, [num |-> it, den |-> vst], error,
        optimScalingAndBackground(intensity, [num |-> it, den |-> vst], error,
            <<Div(MaxSeq(intensity, NQ), MaxSeq(it, NQ)),
              MinSeq(intensity, NQ)>>).sc)

\* lines 1224-1279: the state of mcFit before its loop
SeedTotals(rset, vset, iset, it, lowMemoryFootprint, v) ==
    [rset |-> rset, vset |-> vset,
     iset |-> IF lowMemoryFootprint THEN <<>> ELSE iset,
     it |-> it, itShape |-> IF lowMemoryFootprint THEN Column ELSE Flat,
     vst |-> SumSquares(vset, Len(vset)), sc |-> v.sc, conval |-> v.conval,
     numContribs |-> Len(rset),
     numIter |-> 0, numMoves |-> 0, numNotAccepted |-> 0, ri |-> 0]

SeedIntensities(rset, vset, iset, it, error, lowMemoryFootprint) ==
    SeedTotals(rset, vset, iset, it, lowMemoryFootprint,
               SeedScaling(it, SumSquares(vset, Len(vset)), error))

SeedVolumes(rset, vset, iset, error, lowMemoryFootprint) ==
    SeedIntensities(rset, vset, iset,
        smear(IF lowMemoryFootprint
              THEN LowMemoryTotal(rset, vset, Len(rset))
              ELSE SumIntensity(iset, Len(rset))),
        error, lowMemoryFootprint)

SeedRadii(rset, vset, error, lowMemoryFootprint) ==
    SeedVolumes(rset, vset,
        [i \in DOMAIN rset |-> ContribIntensity(rset[i], vset[i])],
        error, lowMemoryFootprint)

\* lines 1224-1256: volumes, intensities and the first two scaling passes
SeedState(rset, error, lowMemoryFootprint) ==
    SeedRadii(rset, [i \in DOMAIN rset |-> vol(rset[i], compensationExponent)],
              error, lowMemoryFootprint)

\* McSASParameters.convergenceCriterion: 1.0
convergenceCriterion == 10000

\* (mutant) the loop makes one pass more than the budget allows
LoopConditionPastBudget(s) ==
    Gt(s.conval, convergenceCriterion) /\ s.numIter <= maxIterations

\* line 1281: the condition of the iteration loop
LoopCondition(s) ==
    Gt(s.conval, convergenceCriterion) /\ s.numIter < maxIterations

\* (mutant) the low-memory mode recomputes fo**2 without the volume weighting
OldIntensityUnweighted(s, lowMemoryFootprint) ==
    IF ~lowMemoryFootprint
    THEN s.iset[s.ri + 1]
    ELSE ContribIntensity(s.rset[s.ri + 1], Scale)

\* lines 1289-1297: the intensity of the contribution about to be replaced,
\* read from the cache or recomputed from its radius and volume
OldIntensity(s, lowMemoryFootprint) ==
    IF ~lowMemoryFootprint
    THEN s.iset[s.ri + 1]
    ELSE ContribIntensity(s.rset[s.ri + 1], s.vset[s.ri + 1])

\* (mutant) the replaced contribution is not subtracted
TestIntensityNoSubtract(it, io, itt) == [k \in QIdx |-> it[k] + itt[k]]

\* lines 1293, 1297: itest = it - io + itt, a flat array in both modes
TestIntensity(it, io, itt) == [k \in QIdx |-> it[k] - io[k] + itt[k]]

\* line 1301: vstest = (sqrt(vst) - vset[ri])**2 + vtt**2
TestVolumeSquared(vst, vo, vtt) ==
    Mul(sqrt(vst) - vo, sqrt(vst) - vo) + Mul(vtt, vtt)

\* (mutant) a trial that merely equals the current chi-square is accepted
AcceptsEqual(convalt, conval) == Le(convalt, conval)

\* line 1307: the trial is an improvement
Accepts(convalt, conval) == Lt(convalt, conval)

\* lines 1302-1305: the scaling and the chi-square of the trial totals
TrialScaling(vtt, itt, itest, vstest, error, sc) ==
    [vtt |-> vtt, itt |-> itt, itest |-> itest, vstest |-> vstest,
     fit |-> optimScalingAndBackground(intensity,
                [num |-> itest, den |-> vstest], error, sc)]

\* lines 1287-1301: the trial totals for the volume vtt and the intensity itt
\* of the trial radius
TrialTotals(s, vtt, itt, error, lowMemoryFootprint) ==
    TrialScaling(vtt, itt,
        smear(TestIntensity(s.it, OldIntensity(s, lowMemoryFootprint), itt)),
        TestVolumeSquared(s.vst, s.vset[s.ri + 1], vtt),
        error, s.sc)

\* lines 1284-1286: ft, vtt and itt of the trial radius
TrialVolume(s, rt, vtt, error, lowMemoryFootprint) ==
    TrialTotals(s, vtt, ContribIntensity(rt, vtt), error, lowMemoryFootprint)

\* lines 1283-1305: the volume, the intensity, the total intensity, the
\* volume squared, the scaling and the chi-square of the trial radius rt for
\* the contribution s.ri
Trial(s, rt, error, lowMemoryFootprint) ==
    TrialVolume(s, rt, vol(rt, compensationExponent), error, lowMemoryFootprint)

\* (mutant) the index stops at the last contribution instead of wrapping
NextIndexNoWrap(ri, n) == IF ri + 1 < n THEN ri + 1 ELSE ri

\* line 1346: ri = (ri + 1) % (numContribs), n being mcFit's numContribs
NextIndex(ri, n) == (ri + 1) % n

\* (mutant) a rejected trial leaves its total intensity and volume squared
\* behind as the running totals
RejectKeepsTotals(s, t) ==
    [s EXCEPT !.it = t.itest, !.itShape = Flat, !.vst = t.vstest,
              !.numNotAccepted = @ + 1,
              !.ri = NextIndex(s.ri, s.numContribs), !.numIter = @ + 1]

\* lines 1338-1347: the trial is rejected
Reject(s, t) ==
    [s EXCEPT !.numNotAccepted = @ + 1,
              !.ri = NextIndex(s.ri, s.numContribs), !.numIter = @ + 1]

\* lines 1307-1337, 1345-1347: the trial t of the radius rt is accepted
Accept(s, rt, t, lowMemoryFootprint) ==
    [s EXCEPT !.rset[s.ri + 1] = rt, !.sc = t.fit.sc, !.conval = t.fit.conval,
              !.it = t.itest, !.itShape = Flat,
              !.vset[s.ri + 1] = t.vtt,
              !.vst = t.vstest,
              !.iset = IF lowMemoryFootprint THEN @
                       ELSE [@ EXCEPT ![s.ri + 1] = t.itt],
              !.numMoves = @ + 1, !.numNotAccepted = 0,
              !.ri = NextIndex(s.ri, s.numContribs), !.numIter = @ + 1]

\* lines 1306-1347: the decision on the trial t
Decide(s, rt, t, lowMemoryFootprint) ==
    IF Accepts(t.fit.conval, s.conval)
    THEN Accept(s, rt, t, lowMemoryFootprint)
    ELSE Reject(s, t)

\* A trial radius equal to the radius it replaces gives itest = it, and
\* itest/vstest is a multiple of it/vst: the least chi-square of the trial is
\* the current one, and line 1307 compares two numbers that differ by the
\* rounding of the search alone.  The rounding is -1 when the trial's comes
\* out the smaller and 0 when it does not.
Roundings(s, rt) ==
    IF rt = s.rset[s.ri + 1] /\ IsFinite(s.conval) THEN {-1, 0} ELSE {0}

\* the trial t of the radius rt with the rounding of its chi-square
Rounded(s, rt, rounding, t) ==
    IF rt = s.rset[s.ri + 1] /\ IsFinite(s.conval) /\ IsFinite(t.fit.conval)
    THEN [t EXCEPT !.fit.conval = s.conval + rounding]
    ELSE t

\* lines 1283-1347: one pass of the iteration loop with the trial radius rt
McIterate(s, rt, rounding, error, lowMemoryFootprint) ==
    Decide(s, rt,
           Rounded(s, rt, rounding, Trial(s, rt, error, lowMemoryFootprint)),
           lowMemoryFootprint)

\* lines 1366-1377: the values mcFit returns; ifinal * sc[0] + sc[1] has the
\* shape of it
McFitReturned(s, ifinal, f) ==
    [rset |-> s.rset,
     intensity |-> ScaledIntensity(ifinal, f.sc),
     intensityShape |-> s.itShape,
     conval |-> f.conval,
     details |-> [numIterations |-> s.numIter, numMoves |-> s.numMoves]]

\* lines 1362-1377: the final scaling pass and the values mcFit returns
McFitResult(s, error) ==
    McFitReturned(s,
        [num |-> smear(s.it), den |-> SumSquares(s.vset, Len(s.vset))],
        optimScalingAndBackground(intensity,
            [num |-> smear(s.it), den |-> SumSquares(s.vset, Len(s.vset))],
            error, s.sc))

\* ------------------------------------------------------------------ histogram
\* McSASParameters.deltaRhoSquared: 1.0
deltaRhoSquared == 10000

\* ndarray.mean()
mean(s) == Div(SumSeq(s, Len(s)), Len(s) * Scale)

\* abs(s - m).max() over the first n entries of s
RECURSIVE MaxDeviation(_, _, _)
MaxDeviation(s, m, n) ==
    IF n = 0 THEN 0
    ELSE IF Abs(s[n] - m) > MaxDeviation(s, m, n - 1) THEN Abs(s[n] - m)
    ELSE MaxDeviation(s, m, n - 1)

\* sum(((s - m) / d)**2) over the first n entries of s
RECURSIVE SumSquaredDeviations(_, _, _, _)
SumSquaredDeviations(s, m, d, n) ==
    IF n = 0 THEN 0
    ELSE SumSquaredDeviations(s, m, d, n - 1)
            + Mul(Div(s[n] - m, d), Div(s[n] - m, d))

\* sqrt(sum((s - m)**2) / (len(s) - ddof)), the deviations being taken in
\* units of the largest one, d, which keeps the resolution of small values
StdAround(s, m, d, ddof) ==
    IF d = 0 THEN 0
    ELSE Mul(d, sqrt(Div(SumSquaredDeviations(s, m, d, Len(s)),
                         (Len(s) - ddof) * Scale)))

\* ndarray.std(ddof = ddof): the standard deviation of s with the divisor
\* len(s) - ddof
std(s, ddof) ==
    IF \E i \in DOMAIN s : ~IsFinite(s[i]) THEN NaN
    ELSE StdAround(s, mean(s), MaxDeviation(s, mean(s), Len(s)), ddof)

\* the entries of s where mask holds, in order
RECURSIVE Select(_, _)
Select(s, mask) ==
    IF s = <<>> THEN <<>>
    ELSE (IF Head(mask) THEN <<Head(s)>> ELSE <<>>) \o Select(Tail(s), Tail(mask))

\* lines 1576-1579: 10**numpy.linspace(log10(min), log10(max), histogramBins + 1),
\* the bin edges with histogramXScale = 'log', the default of McSASParameters
histogramXLowerEdge(range) ==
    array([i \in 1..(histogramBins + 1) |->
            IF i = 1 THEN range[1]
            ELSE IF i = histogramBins + 1 THEN range[2]
            ELSE Mul(range[1],
                     Root(Pow(Div(range[2], range[1]), i - 1), histogramBins))],
          histogramBins + 1)

\* lines 1606-1607: the contributions of rset inside bin bini (0-based)
binMask(rset, edges, bini) ==
    array([c \in DOMAIN rset |->
            rset[c] >= edges[bini + 1] /\ rset[c] < edges[bini + 2]],
          Len(rset))

\* (mutant) the number fractions are left as they are
NotNormalised(x, total) == x

\* lines 1559-1560: x /= totalNumberFraction[ri]
Normalised(x, total) == Div(x, total)

\* lines 1540-1557: (error * volumeFraction[c] / (sc[0] * iset[:, c])).min() / vpa[c]
MinimumRequired(error, vf, sc, ic, vpa) ==
    Div(MinSeq([k \in QIdx |-> Div(Mul(error[k], vf), Mul(sc[1], ic[k]))], NQ),
        vpa)

\* lines 1551-1554, low-memory mode: it has the shape (nq, 1), so ir / it is
\* the nq-by-nq matrix of ir[j] / it[i] and argmax the position of its largest
\* entry in row-major order: the row of the smallest total, the column of the
\* largest ir
LowMemoryArgMax(ir, it) == ArgMin(it, NQ) * NQ + ArgMax(ir, NQ)

\* line 1554: q[qmi] raises IndexError
LowMemoryRaises(rset, it) ==
    \E c \in DOMAIN rset :
        LowMemoryArgMax(ContribIntensity(rset[c],
                            vol(rset[c], compensationExponent)), it) >= NQ

\* lines 1525-1560: the fractions of one repetition from its volume fractions
HistNormalised(sc, vf, nfraw, tnf, mrv) ==
    [scalingFactors |-> sc,
     volumeFraction |-> vf,
     totalVolumeFraction |-> SumSeq(vf, Len(vf)),
     numberFraction |->
        array([c \in DOMAIN nfraw |-> Normalised(nfraw[c], tnf)], Len(nfraw)),
     totalNumberFraction |-> tnf,
     minimumRequiredVolume |-> mrv,
     minimumRequiredNumber |->
        array([c \in DOMAIN nfraw |-> Normalised(0, tnf)], Len(nfraw))]

HistNumbers(sc, vf, nfraw, mrv) ==
    HistNormalised(sc, vf, nfraw, SumSeq(nfraw, Len(nfraw)), mrv)

HistVolumes(rset, iset, error, sc, vf) ==
    HistNumbers(sc, vf,
        array([c \in DOMAIN rset |-> Div(vf[c], vol(rset[c], Scale))], Len(rset)),
        array([c \in DOMAIN rset |->
                MinimumRequired(error, vf[c], sc, iset[c], vol(rset[c], Scale))],
              Len(rset)))

\* lines 1515-1560: the fractions of one repetition, sc being the scaling
\* found for its total intensity; vpa = vol(rset, compensationExponent = 1.0)
HistFractions(rset, vset, iset, error, sc) ==
    HistVolumes(rset, iset, error, sc,
        array([c \in DOMAIN rset |->
                Div(Mul(sc[1], Mul(vset[c], vset[c])),
                    Mul(vol(rset[c], Scale), deltaRhoSquared))], Len(rset)))

\* lines 1516-1521: the initial guess and the scaling pass of one repetition
HistScaling(rset, vset, iset, it, error, lowMemoryFootprint) ==
    IF lowMemoryFootprint /\ LowMemoryRaises(rset, it)
    THEN [exception |-> "IndexError"]
    ELSE HistFractions(rset, vset, iset, error,
            optimScalingAndBackground(intensity, [num |-> it, den |-> Scale],
                error,
                <<Div(MaxSeq(intensity, NQ), MaxSeq(it, NQ)),
                  MinSeq(intensity, NQ)>>).sc)

HistIntensities(rset, vset, iset, error, lowMemoryFootprint) ==
    HistScaling(rset, vset, iset,
        smear(IF lowMemoryFootprint
              THEN LowMemoryTotal(rset, vset, Len(rset))
              ELSE SumIntensity(iset, Len(rset))),
        error, lowMemoryFootprint)

HistVolumeSet(rset, vset, error, lowMemoryFootprint) ==
    HistIntensities(rset, vset,
        array([c \in DOMAIN rset |-> ContribIntensity(rset[c], vset[c])],
              Len(rset)),
        error, lowMemoryFootprint)

\* lines 1480-1560: the quantities histogram() derives from one repetition
HistRepetition(rset, error, lowMemoryFootprint) ==
    HistVolumeSet(rset,
        array([c \in DOMAIN rset |-> vol(rset[c], compensationExponent)],
              Len(rset)),
        error, lowMemoryFootprint)

\* lines 1610-1623: the values of one bin for one repetition, mask telling the
\* contributions inside the bin and vol0 being sum(volumeFraction[binMask])
HistBinValues(rep, mask, vol0) ==
    [volHistRepY |-> IF vol0 = NaN THEN 0 ELSE vol0,
     numHistRepY |-> IF vol0 = NaN THEN 0
                     ELSE SumSeq(Select(rep.numberFraction, mask),
                                 Len(Select(rep.numberFraction, mask))),
     minReqVolBin |-> IF \E c \in DOMAIN mask : mask[c]
                      THEN mean(Select(rep.minimumRequiredVolume, mask))
                      ELSE 0,
     minReqNumBin |-> IF \E c \in DOMAIN mask : mask[c]
                      THEN mean(Select(rep.minimumRequiredNumber, mask))
                      ELSE 0]

\* lines 1601-1623: the values of bin bini for one repetition
HistBin(rset, rep, edges, bini) ==
    HistBinValues(rep, binMask(rset, edges, bini),
        SumSeq(Select(rep.volumeFraction, binMask(rset, edges, bini)),
               Len(Select(rep.volumeFraction, binMask(rset, edges, bini)))))

\* lines 1626-1629: vb[vb < inf] is empty, its max() raises ValueError
NoFiniteEntry(vb) == \A r \in DOMAIN vb : ~Lt(vb[r], Inf)

\* nb[vb < inf].max()
MaxWhereFinite(nb, vb) ==
    MaxSeq(Select(nb, array([r \in DOMAIN vb |-> Lt(vb[r], Inf)], Len(vb))),
           Len(Select(nb, array([r \in DOMAIN vb |-> Lt(vb[r], Inf)], Len(vb)))))

\* the values field of bin b in every repetition
BinColumn(bin, b, field) ==
    array([r \in DOMAIN bin[b] |-> bin[b][r][field]], Len(bin[b]))

\* line 1627: histogram() raises ValueError, bin[b][r] holding the values of
\* bin b for repetition r
histogramRaises(bin) ==
    \E b \in DOMAIN bin : NoFiniteEntry(BinColumn(bin, b, "minReqVolBin"))

\* the values field of every repetition
RepColumn(rep, field) == array([r \in DOMAIN rep |-> rep[r][field]], Len(rep))

\* lines 1626-1656: the record histogram() stores for the radius parameter;
\* std(axis = 1) is called with numpy's default ddof = 0
HistRecord(rep, bin, edges) ==
    [histogramXLowerEdge |-> edges,
     volumeHistogramRepetitionsY |->
         array([b \in DOMAIN bin |-> BinColumn(bin, b, "volHistRepY")], Len(bin)),
     numberHistogramRepetitionsY |->
         array([b \in DOMAIN bin |-> BinColumn(bin, b, "numHistRepY")], Len(bin)),
     volumeHistogramYMean |->
         array([b \in DOMAIN bin |-> mean(BinColumn(bin, b, "volHistRepY"))],
               Len(bin)),
     volumeHistogramYStd |->
         array([b \in DOMAIN bin |-> std(BinColumn(bin, b, "volHistRepY"), 0)],
               Len(bin)),
     numberHistogramYMean |->
         array([b \in DOMAIN bin |-> mean(BinColumn(bin, b, "numHistRepY"))],
               Len(bin)),
     numberHistogramYStd |->
         array([b \in DOMAIN bin |-> std(BinColumn(bin, b, "numHistRepY"), 0)],
               Len(bin)),
     volumeHistogramMinimumRequired |->
         array([b \in DOMAIN bin |->
                 MaxWhereFinite(BinColumn(bin, b, "minReqVolBin"),
                                BinColumn(bin, b, "minReqVolBin"))], Len(bin)),
     minimumRequiredVolume |-> RepColumn(rep, "minimumRequiredVolume"),
     volumeFraction |-> RepColumn(rep, "volumeFraction"),
     totalVolumeFraction |-> RepColumn(rep, "totalVolumeFraction"),
     numberHistogramMinimumRequired |->
         array([b \in DOMAIN bin |->
                 MaxWhereFinite(BinColumn(bin, b, "minReqNumBin"),
                                BinColumn(bin, b, "minReqVolBin"))], Len(bin)),
     minimumRequiredNumber |-> RepColumn(rep, "minimumRequiredNumber"),
     numberFraction |-> RepColumn(rep, "numberFraction"),
     totalNumberFraction |-> RepColumn(rep, "totalNumberFraction"),
     scalingFactors |-> RepColumn(rep, "scalingFactors")]

\* lines 1601-1629: the bins of every repetition; the ValueError of line 1627
\* leaves histogram() before it stores anything
HistBins(rep, bin, edges) ==
    IF histogramRaises(bin) THEN [exception |-> "ValueError"]
    ELSE HistRecord(rep, bin, edges)

\* lines 1565-1623: the bin edges and the bins of every repetition
HistEdges(contribs, rep, edges) ==
    HistBins(rep,
        array([b \in 1..histogramBins |->
                array([r \in DOMAIN contribs |->
                        HistBin(contribs[r], rep[r], edges, b - 1)],
                      Len(contribs))],
              histogramBins),
        edges)

\* lines 1479-1560: rep[r] holds the quantities of repetition r; the
\* IndexError of line 1554 leaves histogram() inside the loop
HistRepetitions(contribs, rep, range) ==
    IF \E r \in DOMAIN rep : "exception" \in DOMAIN rep[r]
    THEN [exception |-> "IndexError"]
    ELSE HistEdges(contribs, rep, histogramXLowerEdge(range))

\* lines 1451-1656: what histogram() makes of the contributions of
\* self.result[0]: the record it stores, or the exception it raises
histogram(contribs, error, lowMemoryFootprint, range) ==
    HistRepetitions(contribs,
        array([r \in DOMAIN contribs |->
                HistRepetition(contribs[r], error, lowMemoryFootprint)],
              Len(contribs)),
        range)

\* --------------------------------------------------------------------- state
VARIABLES
    error,               \* IError handed to McSAS(): data[:, 2]
    maxRetries,          \* McSASParameters.maxRetries
    lowMemoryFootprint,  \* McSASParameters.lowMemoryFootprint
    startFromMinimum,    \* McSASParameters.startFromMinimum
    prior,               \* McSASParameters.prior
    priors,              \* McSASParameters.priors, one contribution set per slice
    pc,                  \* position in __init__ / analyse / mcFit
    nr,                  \* analyse: index of the current repetition
    nt,                  \* analyse: attempts made for the current repetition
    convergence,         \* analyse: chi-square returned by the last attempt
    priorsflag,          \* analyse: the prior is taken from priors
    priorView,           \* k when McSASParameters.prior is the view
                         \* priors[:, :, k - 1] (line 1125), 0 when it is an
                         \* array of its own
    drawn,               \* mcFit: rt, the trial radius of the pass just made,
                         \* and the rounding of its chi-square
    contributions,       \* analyse: contribution set of every repetition
    contribIntensity,    \* analyse: fitted intensity of every repetition
    numIter,             \* analyse: iteration count of every repetition
    details,             \* analyse: details returned by the last attempt
    result,              \* McSAS.result
    exception,           \* the exception propagating out of __init__, if any
    valueRange,          \* Radius.valueRange of the model: (lower, upper)
    fit,                 \* mcFit: its local state, in cached (FALSE) and
                         \* low-memory (TRUE) mode on the same random draws
    stop,                \* McSAS.stop, set by Calculator.stop()
    iterationsAfterStop, \* passes of mcFit's loop begun after stop was set
    repetitionsAfterStop,\* passes of analyse's loop begun after stop was set
    kwargs,              \* the keyword arguments of the current McSAS(...) call
    run,                 \* number of McSAS(...) calls made in this process
    histogramCalls,      \* number of histogram() calls on the current object
    algo,                \* the algorithm objects made by AlgorithmBase.factory
    dataList,            \* DataList.updateData: its locals and the calls it made
    solver               \* a call of optimScalingAndBackground: arguments and result

vars == <<error, maxRetries, lowMemoryFootprint, startFromMinimum, prior, priors,
          pc, nr, nt, convergence, priorsflag, priorView, drawn, contributions,
           contribIntensity,
          numIter, details, result, exception, fit, stop,
          iterationsAfterStop, repetitionsAfterStop, kwargs, run, histogramCalls,
          valueRange, algo, dataList, solver>>

\* the objects of the graphical front end
gui == <<algo, dataList>>

\* the state of McSAS and of the process calling it
mcsas == <<error, maxRetries, lowMemoryFootprint, startFromMinimum, prior, priors,
           pc, nr, nt, convergence, priorsflag, priorView, drawn, contributions,
           contribIntensity,
           numIter, details, result, exception, fit, stop,
           iterationsAfterStop, repetitionsAfterStop, kwargs, run, histogramCalls,
           valueRange>>

config == <<error, maxRetries, lowMemoryFootprint, startFromMinimum>>

\* the radius every row of a supplied prior holds: the largest radius below
\* the upper size bound
PriorValue ==
    CHOOSE r \in Radii :
        r < sizeBounds[2] /\ \A o \in Radii : o < sizeBounds[2] => o <= r
\* the priors a caller may supply: none, fewer rows than numContribs, as many, more
PriorChoices == {[i \in 1..k |-> PriorValue] : k \in 0..(numContribs + 1)}
\* the prior ensembles a caller may supply: none, one slice, or two slices
PriorsChoices == {<<>>, <<[i \in 1..numContribs |-> PriorValue]>>,
                        <<[i \in 1..numContribs |-> PriorValue],
                          [i \in 1..numContribs |-> sizeBounds[1]]>>}
\* the Dataset keyword a caller may pass
DatasetChoices == {"original", "fit", "unknown"}
\* the keyword arguments a caller may pass next to Q, I and IError; an empty
\* prior or priors stands for a keyword that is not passed.  The calls
\* considered pass at most one of Dataset (other than its default), prior and
\* priors.
KwargsChoices ==
    {kw \in [Dataset : DatasetChoices, prior : PriorChoices, priors : PriorsChoices] :
        /\ Len(kw.prior) = 0 \/ Len(kw.priors) = 0
        /\ kw.Dataset = "original" \/ (Len(kw.prior) = 0 /\ Len(kw.priors) = 0)}
\* a call that passes the data only
DataOnly == [Dataset |-> "original", prior |-> <<>>, priors |-> <<>>]

\* the options a call leaves alone: non-zero uncertainties, the cached mode, a
\* random start
DefaultOptions(err, lowMemory, fromMinimum) ==
    (\A k \in DOMAIN err : err[k] # 0) /\ ~lowMemory /\ ~fromMinimum

\* no trial has been drawn
NoDraw == [rt |-> 0, rounding |-> 0]

\* mcFit's locals before its first call
NoFit ==
    [rset |-> <<>>, vset |-> <<>>, iset |-> <<>>, it |-> [k \in QIdx |-> 0],
     itShape |-> Flat, vst |-> 0, sc |-> <<0, 0>>, conval |-> Inf, numContribs |-> numContribs,
     numIter |-> 0, numMoves |-> 0, numNotAccepted |-> 0, ri |-> 0]

\* the mode analyse() reads its results from
Mode == lowMemoryFootprint

\* ------------------------------------------------------------ AlgorithmBase
\* algorithmbase_test.py line 10: TestPar, a float parameter named testPar
\* with the default value 5.0 and the value range (4.0, 13.0)
TestParDefault == 5
TestParLow == 4
TestParHigh == 13
TestParRange == TestParLow..TestParHigh

\* the number of algorithm objects a process creates
MaxInstances == 3

\* no algorithm object exists yet.  params holds the value of every parameter
\* object, insts the algorithm instances: their name and the parameter object
\* their attribute testPar refers to (copyOf is the instance copy() was called
\* on, 0 for an instance made by the type); call is the last call made.
NoAlgorithms == [params |-> <<>>, insts |-> <<>>, call |-> [name |-> "none"]]

\* TestAlgo.factory("testalgo", TestPar)(): a new instance whose testPar is a
\* new instance of the parameter type with the default value
AlgorithmNew(h) ==
    [h EXCEPT !.params = Append(@, TestParDefault),
              !.insts = Append(@, [name |-> "testalgo", copyOf |-> 0,
                                   testPar |-> Len(h.params) + 1])]

\* (mutant) the copy refers to the parameter object of the original
AlgorithmCopyShared(h, i) ==
    [h EXCEPT !.insts = Append(@, [name |-> h.insts[i].name, copyOf |-> i,
                                   testPar |-> h.insts[i].testPar])]

\* a1.copy(): an instance of the same type whose parameter is a parameter
\* object of its own holding the value of the original
AlgorithmCopy(h, i) ==
    [h EXCEPT !.params = Append(@, h.params[h.insts[i].testPar]),
              !.insts = Append(@, [name |-> h.insts[i].name, copyOf |-> i,
                                   testPar |-> Len(h.params) + 1])]

\* a1.testPar.value()
ParameterValue(h, i) == h.params[h.insts[i].testPar]

\* a1.testPar.setValue(v)
ParameterSetValue(h, i, v) == [h EXCEPT !.params[h.insts[i].testPar] = v]

\* a1 == a2: the same name and equal parameter values
AlgorithmEqual(h, i, j) ==
    /\ h.insts[i].name = h.insts[j].name
    /\ ParameterValue(h, i) = ParameterValue(h, j)

\* a = TestAlgo.factory("testalgo", TestPar)()
AlgoCreate ==
    /\ Len(algo.insts) < MaxInstances
    /\ algo' = [AlgorithmNew(algo) EXCEPT !.call = [name |-> "factory"]]
    /\ UNCHANGED <<mcsas, solver, dataList>>

\* a2 = a1.copy()
AlgoCopy ==
    /\ Len(algo.insts) < MaxInstances
    /\ \E i \in DOMAIN algo.insts :
          algo' = [AlgorithmCopy(algo, i) EXCEPT
                      !.call = [name |-> "copy", self |-> i]]
    /\ UNCHANGED <<mcsas, solver, dataList>>

\* a1.testPar.setValue(v)
AlgoSetValue ==
    /\ \E i \in DOMAIN algo.insts : \E v \in TestParRange :
          algo' = [ParameterSetValue(algo, i, v) EXCEPT
                      !.call = [name |-> "setValue", self |-> i, value |-> v]]
    /\ UNCHANGED <<mcsas, solver, dataList>>


\* ------------------------------------------------------ DataList.updateData
\* the number of data items the list can hold
MaxItems == 4

\* what updateFunc does with one item
UpdateOutcomes == {"ok", "StandardError"}

\* updateData has not been called.  data are the items of the call, item the
\* position of its for loop, updateCalls the items handed to updateFunc with
\* what the call did, stopCalls the number of stopFunc() calls, stopRequested
\* what stopFunc() returns when called (Calculator.stop() has set the flag).
NoUpdate ==
    [pc |-> "idle", data |-> 0, item |-> 1, updateCalls |-> <<>>,
     updateResult |-> <<>>, stopCalls |-> 0, stopRequested |-> FALSE,
     errorOccured |-> FALSE, displayed |-> FALSE, emitted |-> "none"]

\* lines 440-451: one pass of the for loop over the data items, with
\* showProgress = False (progress is None) as MainWindow.calc calls it
UpdateItem(d, outcome) ==
    LET called == [d EXCEPT !.updateCalls =
                       Append(@, [item |-> d.item, outcome |-> outcome])]
        last   == d.item = d.data
    IN  IF outcome = "ok"
        THEN \* lines 442-447: the result is appended, stopFunc() is called
             [called EXCEPT !.updateResult = Append(@, d.item),
                            !.stopCalls = @ + 1,
                            !.item = IF d.stopRequested THEN @ ELSE @ + 1,
                            !.pc = IF d.stopRequested \/ last
                                   THEN "after" ELSE "loop"]
        ELSE \* lines 448-451: except StandardError ... continue
             [called EXCEPT !.errorOccured = TRUE,
                            !.item = @ + 1,
                            !.pc = IF last THEN "after" ELSE "loop"]

\* lines 406-439: updateData(updateFunc = calculator, stopFunc =
\* calculator.isStopped, showProgress = False) on count data items; with no
\* items it emits sigUpdatedData(None) and returns
updateData(d, count) ==
    IF count <= 0
    THEN [d EXCEPT !.pc = "returned", !.emitted = "None"]
    ELSE [d EXCEPT !.pc = "loop", !.data = count]

\* mainwindow.py 411-424: MainWindow.calc() with fileWidget items in the file
\* list.  It returns at once when the list is empty (412-413); otherwise
\* updateData gets the selected items when there is a selection and every
\* item when there is none (calculator.prepare() and postProcess() are not
\* part of this source and not modelled)
calc ==
    /\ dataList.pc = "idle"
    /\ \E fileWidget \in 0..MaxItems :
          IF fileWidget <= 0
          THEN dataList' = [dataList EXCEPT !.pc = "returned"]
          ELSE \E count \in 1..fileWidget :
                  dataList' = updateData(dataList, count)
    /\ UNCHANGED <<mcsas, solver, algo>>

\* lines 440-451: updateFunc is called on the next item
UpdateDataItem ==
    /\ dataList.pc = "loop"
    /\ \E outcome \in UpdateOutcomes :
          dataList' = UpdateItem(dataList, outcome)
    /\ UNCHANGED <<mcsas, solver, algo>>

\* mainwindow.py 394-406: onStartStopClick calls Calculator.stop(), which
\* sets the flag stopFunc reports: when the button is clicked while
\* updateFunc runs, and after every calculation (line 404)
UpdateDataStopClick ==
    /\ dataList' = [dataList EXCEPT !.stopRequested = TRUE]
    /\ UNCHANGED <<mcsas, solver, algo>>

\* lines 452-464 and 540-547: the loop is left, reraiseLast() displays the
\* last error, sigUpdatedData is emitted and updateResult returned
UpdateDataReturn ==
    /\ dataList.pc = "after"
    /\ dataList' = [dataList EXCEPT !.pc = "returned",
                                    !.displayed = dataList.errorOccured,
                                    !.emitted = "selection"]
    /\ UNCHANGED <<mcsas, solver, algo>>


\* ------------------------------------------ optimScalingAndBackground calls
\* no call has been made
NoSolve ==
    [pc |-> "idle", intCalc |-> [k \in QIdx |-> 0], error |-> [k \in QIdx |-> Scale],
     guess |-> <<Scale, 0>>, sc |-> <<Scale, 0>>, conval |-> Inf,
     exception |-> "none"]

\* the calculated intensities handed to the solver: zero at every q, and
\* the totals of one or two contributions
IntCalcChoices ==
    {[k \in QIdx |-> 0]}
        \cup {SumIntensity([i \in DOMAIN rset |->
                    ContribIntensity(rset[i], vol(rset[i], compensationExponent))],
                 Len(rset)) :
                rset \in randUniform(1, sizeBounds) \cup randUniform(2, sizeBounds)}

\* the initial guesses: the one of lines 1248-1249 where it is finite and
\* where intensity.max() / it.max() is a division by zero, and zero
GuessChoices ==
    {<<Scale, MinSeq(intensity, NQ)>>, <<Inf, MinSeq(intensity, NQ)>>, <<0, 0>>}

\* the calls of the solver considered
SolveChoices ==
    {[NoSolve EXCEPT !.intCalc = c, !.error = e, !.guess = g] :
        c \in IntCalcChoices, e \in ErrorChoices, g \in GuessChoices}

\* sc, conval = optimScalingAndBackground(intensity, intCalc, error, guess):
\* the function returns, it has no raise statement
SolverCall ==
    /\ solver.pc = "idle"
    /\ \E r \in {optimScalingAndBackground(intensity,
                    [num |-> solver.intCalc, den |-> Scale],
                    solver.error, solver.guess)} :
          solver' = [solver EXCEPT !.pc = "returned", !.sc = r.sc,
                                   !.conval = r.conval]
    /\ UNCHANGED <<mcsas, gui>>

\* McSAS(**kwargs) is called for the first time: the keyword arguments and
\* the class-level defaults of McSASParameters
InitMcSAS ==
    /\ error \in ErrorChoices
    /\ maxRetries \in 0..MaxRetriesBound
    /\ lowMemoryFootprint \in BOOLEAN
    /\ startFromMinimum \in BOOLEAN
    /\ kwargs \in KwargsChoices
    /\ prior = <<>>
    /\ priors = <<>>
    /\ run = 1
    /\ histogramCalls = 0
    /\ pc = "init"
    /\ algo = NoAlgorithms
    /\ dataList = NoUpdate
    /\ nr = 0
    /\ nt = 0
    /\ convergence = Inf
    /\ priorsflag = FALSE
    /\ priorView = 0
    /\ drawn = NoDraw
    /\ contributions = [r \in 1..numReps |-> [i \in 1..numContribs |-> 0]]
    /\ contribIntensity = [r \in 1..numReps |-> [k \in QIdx |-> 0]]
    /\ numIter = [r \in 1..numReps |-> 0]
    /\ details = [numIterations |-> 0, numMoves |-> 0]
    /\ result = <<>>
    /\ exception = "none"
    /\ fit = [m \in BOOLEAN |-> NoFit]
    /\ valueRange = RadiusValueRange
    /\ stop = FALSE
    /\ iterationsAfterStop = 0
    /\ repetitionsAfterStop = 0

Init ==
    /\ InitMcSAS
    /\ solver = NoSolve

\* one more pass counted after stop was set (the count is kept up to 2)
CountAfterStop(n) == IF stop /\ n < 2 THEN n + 1 ELSE n

\* lines 491-501: setData, setParameter, clipDataset, checkParameters.
\*  - lines 519-527: a Dataset keyword that is neither 'fit' nor 'original'
\*    raises ValueError inside a try whose bare except discards it;
\*  - lines 547-550: with Dataset = 'fit' the SASData is built from None, no
\*    size bounds are derived and list(None) raises TypeError;
\*  - lines 244-250, 550: the size bounds derived from q become
\*    McSASParameters.contribParamBounds, and line 720 makes them the value
\*    range of the radius;
\*  - the uncertainties are stored as given;
\*  - lines 558-564: setParameter sets the class attribute of McSASParameters
\*    for every keyword passed, and leaves the others as they are.
SetData ==
    /\ pc = "init"
    /\ IF kwargs.Dataset = "fit"
       THEN /\ pc' = "raised"
            /\ exception' = "TypeError"
            /\ UNCHANGED <<prior, priors, priorView, valueRange>>
       ELSE /\ pc' = "analyse"
            /\ prior' = IF Len(kwargs.prior) > 0 THEN kwargs.prior ELSE prior
            /\ priors' = IF Len(kwargs.priors) > 0 THEN kwargs.priors ELSE priors
            /\ priorView' = IF Len(kwargs.prior) > 0 \/ Len(kwargs.priors) > 0
                            THEN 0 ELSE priorView
            /\ valueRange' = updateParamBounds(sizeBounds)
            /\ UNCHANGED exception
    /\ UNCHANGED <<gui, solver, config, nr, nt, convergence, priorsflag, drawn,
                   contributions, contribIntensity, numIter, details, result,
                   fit, stop, iterationsAfterStop, repetitionsAfterStop,
                   kwargs, run, histogramCalls>>

\* lines 1120-1129: the head of the repetition loop
AnalyseRepetition ==
    /\ pc = "analyse"
    /\ nr < numReps
    /\ LET usePriors == (Len(prior) <= 0 /\ Len(priors) > 0) \/ priorsflag
       IN  /\ priorsflag' = usePriors
           /\ prior' = IF usePriors THEN priors[(nr % Len(priors)) + 1] ELSE prior
           /\ priorView' = IF usePriors THEN (nr % Len(priors)) + 1 ELSE priorView
    /\ nt' = 0
    /\ convergence' = Inf
    /\ pc' = "retry"
    /\ repetitionsAfterStop' = CountAfterStop(repetitionsAfterStop)
    /\ UNCHANGED <<gui, solver, valueRange, config, priors, nr, drawn, contributions, contribIntensity, numIter,
                   details, result, exception, fit, stop, iterationsAfterStop,
                   kwargs, run, histogramCalls>>

\* (mutant) an attempt is repeated only above twice the criterion
RetryConditionLax(c) == Gt(c, 2 * convergenceCriterion)

\* line 1130: while convergence > McSASParameters.convergenceCriterion
RetryCondition(c) == Gt(c, convergenceCriterion)

\* lines 1130-1135 and 1183-1279: the retry loop is entered and mcFit seeds
McFitSeed ==
    /\ pc = "retry"
    /\ RetryCondition(convergence)
    /\ nt' = nt + 1
    /\ \E rset \in InitialSets(prior, startFromMinimum, valueRange) :
          fit' = [m \in BOOLEAN |-> SeedState(rset, error, m)]
    /\ pc' = "mcFit"
    /\ drawn' = NoDraw
    /\ UNCHANGED <<gui, solver, valueRange, config, prior, priors, nr, convergence, priorsflag, priorView,
                   contributions, contribIntensity, numIter, details, result,
                   exception, stop, iterationsAfterStop, repetitionsAfterStop,
                   kwargs, run, histogramCalls>>

\* lines 1205, 1309: rset is the prior array itself, so a replacement in rset
\* is a replacement in McSASParameters.prior and, when the prior is the view
\* of a slice of priors (line 1125, in this run or in an earlier one), in
\* that slice
PriorAfter(newFit) == IF Len(prior) = 0 THEN prior ELSE newFit[Mode].rset

PriorsAfter(newFit) ==
    IF priorView # 0
    THEN [priors EXCEPT ![priorView] = newFit[Mode].rset]
    ELSE priors

\* lines 1281-1347: one pass of mcFit's loop with the trial radius drawn at
\* line 1283, which may be the radius it replaces.  Both modes compute with
\* the same numbers, so the rounding is the same in both.
McFitIterate ==
    /\ pc = "mcFit"
    /\ LoopCondition(fit[Mode])
    /\ \E rt \in randUniform(1, valueRange) :
       \E rounding \in Roundings(fit[Mode], rt[1]) :
          /\ fit' = [m \in BOOLEAN |->
                        IF LoopCondition(fit[m])
                        THEN McIterate(fit[m], rt[1], rounding, error, m)
                        ELSE fit[m]]
          /\ drawn' = [rt |-> rt[1], rounding |-> rounding]
          /\ prior' = PriorAfter(fit')
          /\ priors' = PriorsAfter(fit')
    /\ iterationsAfterStop' = CountAfterStop(iterationsAfterStop)
    /\ UNCHANGED <<gui, solver, valueRange, config, pc, nr, nt, convergence, priorsflag, priorView, contributions,
                   contribIntensity, numIter, details, result, exception, stop,
                   repetitionsAfterStop,
                   kwargs, run, histogramCalls>>

\* line 1134: contributions[:, :, nr] = rset, broadcast by numpy when rset has
\* one row and refused when its row count is neither 1 nor numContribs
Broadcast(rset) ==
    IF Len(rset) = numContribs THEN rset ELSE [i \in 1..numContribs |-> rset[1]]

CanBroadcast(rset) == Len(rset) = numContribs \/ Len(rset) = 1

\* lines 1137-1143: the attempt budget is spent
BudgetSpent(attempts, retries) == attempts > retries

\* (mutant) the repetitions gathered so far are stored before returning
ReturnPartialResult(res, partial) == Append(res, partial)

\* line 1143: analyse returns before line 1158, nothing is stored
ReturnWithoutResult(res, partial) == res

\* lines 1349-1377 and 1134-1143: mcFit returns and analyse takes its results.
\* The targets of line 1134-1136 are assigned from left to right:
\*  - contributions[:, :, nr] = rset raises ValueError for a row count that
\*    cannot be broadcast;
\*  - contribIntensity[:, :, nr] = intensity raises ValueError for an intensity
\*    of shape (nq, 1), after the contributions were assigned.
McFitReturn ==
    /\ pc = "mcFit"
    /\ ~LoopCondition(fit[Mode])
    /\ \E r \in {McFitResult(fit[Mode], error)} :
           IF ~CanBroadcast(r.rset)
           THEN /\ exception' = "ValueError"
                /\ pc' = "raised"
                /\ UNCHANGED <<contributions, contribIntensity, convergence,
                               details, result>>
           ELSE IF r.intensityShape = Column /\ NQ # 1
           THEN /\ contributions' = [contributions EXCEPT
                                        ![nr + 1] = Broadcast(r.rset)]
                /\ exception' = "ValueError"
                /\ pc' = "raised"
                /\ UNCHANGED <<contribIntensity, convergence, details, result>>
           ELSE /\ contributions' = [contributions EXCEPT
                                        ![nr + 1] = Broadcast(r.rset)]
                /\ contribIntensity' = [contribIntensity EXCEPT
                                        ![nr + 1] = r.intensity]
                /\ convergence' = r.conval
                /\ details' = r.details
                /\ pc' = IF BudgetSpent(nt, maxRetries) THEN "returned" ELSE "retry"
                /\ result' = IF BudgetSpent(nt, maxRetries)
                             THEN ReturnWithoutResult(result,
                                    [contribs |-> contributions',
                                     fitInt |-> contribIntensity',
                                     numIter |-> numIter])
                             ELSE result
                /\ UNCHANGED exception
    /\ drawn' = NoDraw
    /\ fit' = [m \in BOOLEAN |-> NoFit]
    /\ UNCHANGED <<gui, solver, valueRange, config, prior, priors, nr, nt, priorsflag, priorView, numIter,
                   stop, iterationsAfterStop, repetitionsAfterStop,
                   kwargs, run, histogramCalls>>

\* lines 1130, 1144-1155: the retry loop ends and the repetition is recorded
AnalyseRecord ==
    /\ pc = "retry"
    /\ ~RetryCondition(convergence)
    /\ numIter' = [numIter EXCEPT ![nr + 1] = details.numIterations]
    /\ nr' = nr + 1
    /\ pc' = "analyse"
    /\ UNCHANGED <<gui, solver, valueRange, config, prior, priors, nt, convergence, priorsflag, priorView, drawn,
                   contributions, contribIntensity, details, result, exception,
                   fit, stop, iterationsAfterStop, repetitionsAfterStop,
                   kwargs, run, histogramCalls>>

\* lines 1157-1164: the result record is stored
AnalyseStore ==
    /\ pc = "analyse"
    /\ nr = numReps
    /\ result' = Append(result,
                    [contribs |-> contributions,
                     fitInt |-> contribIntensity,
                     numIter |-> numIter])
    /\ pc' = "stored"
    /\ UNCHANGED <<gui, solver, valueRange, config, prior, priors, nr, nt, convergence, priorsflag, priorView, drawn,
                   contributions, contribIntensity, numIter, details, exception,
                   fit, stop, iterationsAfterStop, repetitionsAfterStop,
                   kwargs, run, histogramCalls>>

\* gui/calc.py 125-126: Calculator.stop() sets the stop attribute, whenever
\* it is called: before, during and after a calculation (mainwindow.py 404)
Stop ==
    /\ stop' = TRUE
    /\ UNCHANGED <<gui, solver, valueRange, config, prior, priors, pc, nr, nt, convergence, priorsflag, priorView, drawn,
                   contributions, contribIntensity, numIter, details, result,
                   exception, fit, iterationsAfterStop, repetitionsAfterStop,
                   kwargs, run, histogramCalls>>

\* the number of histogram() calls made on one object
MaxHistogramCalls == 2

\* histogram(): the call of line 502, and a later call on the object after
\* __init__ has ended (which it does by raising)
\*  - line 1451: self.result[0] raises IndexError when analyse stored nothing,
\*    and ['contribs'] raises KeyError when result[0] is a histogram record;
\*  - line 1554: IndexError in low-memory mode;
\*  - line 1627: ValueError when a bin has no finite minimum in any repetition;
\*  - line 1638: self.result[0] is replaced by the histogram record.
Histogram ==
    /\ \/ pc \in {"stored", "returned"}
       \/ pc = "raised" /\ histogramCalls < MaxHistogramCalls
    /\ histogramCalls' = histogramCalls + 1
    /\ IF result = <<>>
       THEN /\ exception' = "IndexError"
            /\ pc' = "raised"
            /\ UNCHANGED result
       ELSE IF "contribs" \notin DOMAIN result[1]
       THEN /\ exception' = "KeyError"
            /\ pc' = "raised"
            /\ UNCHANGED result
       ELSE \E h \in {histogram(result[1].contribs, error, lowMemoryFootprint,
                                 valueRange)} :
                IF "exception" \in DOMAIN h
                THEN /\ exception' = h.exception
                     /\ pc' = "raised"
                     /\ UNCHANGED result
                ELSE /\ result' = [result EXCEPT ![1] = h]
                     /\ pc' = IF pc = "raised" THEN "rehistogrammed"
                              ELSE "histogrammed"
                     /\ exception' = "none"
    /\ UNCHANGED <<gui, solver, valueRange, config, prior, priors, nr, nt, convergence, priorsflag, priorView, drawn,
                   contributions, contribIntensity, numIter, details, fit, stop,
                   iterationsAfterStop, repetitionsAfterStop, kwargs, run>>

\* line 506: kwargs['Q'] after setData popped 'Q' from kwargs (line 529)
InitEnd ==
    /\ pc = "histogrammed"
    /\ exception' = "KeyError"
    /\ pc' = "raised"
    /\ UNCHANGED <<gui, solver, valueRange, config, prior, priors, nr, nt, convergence, priorsflag, priorView, drawn,
                   contributions, contribIntensity, numIter, details, result,
                   fit, stop, iterationsAfterStop, repetitionsAfterStop,
                   kwargs, run, histogramCalls>>

\* a later McSAS(Q, I, IError) call in the same process, on the same data and
\* passing no other keyword, while the class attributes of McSASParameters
\* are whatever the earlier run left.  The call makes a new object, which has
\* no stop attribute and no model yet, or runs __init__ again on the object
\* of the earlier run (as gui/calc.py keeps one _algo), where nothing resets
\* the stop attribute
NewRun ==
    /\ pc \in {"raised", "rehistogrammed"}
    /\ \E newObject \in BOOLEAN :
          /\ stop' = IF newObject THEN FALSE ELSE stop
          /\ valueRange' = IF newObject THEN RadiusValueRange ELSE valueRange
    /\ run < MaxRuns
    /\ run' = run + 1
    /\ kwargs' = DataOnly
    /\ pc' = "init"
    /\ nr' = 0
    /\ nt' = 0
    /\ convergence' = Inf
    /\ priorsflag' = FALSE
    /\ drawn' = NoDraw
    /\ contributions' = [r \in 1..numReps |-> [i \in 1..numContribs |-> 0]]
    /\ contribIntensity' = [r \in 1..numReps |-> [k \in QIdx |-> 0]]
    /\ numIter' = [r \in 1..numReps |-> 0]
    /\ details' = [numIterations |-> 0, numMoves |-> 0]
    /\ result' = <<>>
    /\ exception' = "none"
    /\ fit' = [m \in BOOLEAN |-> NoFit]
    /\ iterationsAfterStop' = 0
    /\ repetitionsAfterStop' = 0
    /\ histogramCalls' = 0
    /\ UNCHANGED <<gui, solver, config, prior, priors, priorView>>

Next ==
    \/ SetData
    \/ AnalyseRepetition
    \/ McFitSeed
    \/ McFitIterate
    \/ McFitReturn
    \/ AnalyseRecord
    \/ AnalyseStore
    \/ Histogram
    \/ InitEnd

Spec == Init /\ [][Next]_vars

\* a run during which Calculator.stop() may be called at any time
NextStop ==
    \/ Next
    \/ Stop

\* a call with the default options and the data only
InitStop ==
    /\ Init
    /\ DefaultOptions(error, lowMemoryFootprint, startFromMinimum)
    /\ kwargs = DataOnly

SpecStop == InitStop /\ [][NextStop]_vars

\* a process that calls McSAS with the data only
InitDataOnly ==
    /\ Init
    /\ error = [k \in QIdx |-> Scale]
    /\ maxRetries = 0
    /\ ~lowMemoryFootprint
    /\ ~startFromMinimum
    /\ kwargs = DataOnly

\* algorithm objects are created, copied and changed
NextAlgorithm ==
    \/ AlgoCreate
    \/ AlgoCopy
    \/ AlgoSetValue

SpecAlgorithm == InitDataOnly /\ [][NextAlgorithm]_vars

\* the data list of the main window runs the calculation on its items
NextDataList ==
    \/ calc
    \/ UpdateDataItem
    \/ UpdateDataStopClick
    \/ UpdateDataReturn

SpecDataList == InitDataOnly /\ [][NextDataList]_vars

\* several runs in one process
NextRuns ==
    \/ Next
    \/ NewRun

SpecRuns == Init /\ [][NextRuns]_vars

\* the solver is called on its own
InitSolver ==
    /\ InitMcSAS
    /\ error = [k \in QIdx |-> Scale]
    /\ maxRetries = 0
    /\ ~lowMemoryFootprint
    /\ ~startFromMinimum
    /\ kwargs = DataOnly
    /\ solver \in SolveChoices

NextSolver == SolverCall

SpecSolver == InitSolver /\ [][NextSolver]_vars

\* ------------------------------------------------------------------- claims
AllZero(v) == \A k \in DOMAIN v : v[k] = 0

\* the intensities of a contribution set recomputed from its radii alone
FromScratch(rset) ==
    SumIntensity([i \in DOMAIN rset |->
                    ContribIntensity(rset[i], vol(rset[i], compensationExponent))],
                 Len(rset))

\* C1: every repetition analyse() records as successful (its retry loop was
\* left normally) ended with a reduced chi-square <= convergenceCriterion.
C1_RecordedChiSquare ==
    (pc \in {"analyse", "stored"} /\ nr >= 1)
        => Le(convergence, convergenceCriterion)

\* every repetition was recorded and the result stored, the last repetition
\* after an attempt that had to replace a contribution to converge
C1_Witness ==
    /\ pc = "stored"
    /\ nr = numReps
    /\ details.numMoves >= 1
    /\ Le(convergence, convergenceCriterion)

\* C2: when the attempts of a repetition keep failing, analyse() gives up
\* after exactly maxRetries + 2 attempts and raises OptimizationFailed
\* (stated here for datasets with positive uncertainties).
C2_GivesUpAfterBudget ==
    (pc = "returned" /\ Gt(convergence, convergenceCriterion) /\ ~AllZero(error))
        => (nt = maxRetries + 2 /\ exception = "OptimizationFailed")

\* C3: when a repetition exhausts its attempt budget, analyse() returns
\* without storing a result record, whatever repetitions converged before.
C3_AllOrNothing == pc = "returned" => result = <<>>

C3_Witness ==
    /\ pc = "returned"
    /\ nr >= 1
    /\ Gt(convergence, convergenceCriterion)

\* C4: seeded from a prior with more rows than numContribs, the contribution
\* set has exactly numContribs rows, each of them a row of the prior.
C4_LargerPriorSubsampled ==
    (pc = "mcFit" /\ Len(prior) > numContribs)
        => /\ Len(fit[Mode].rset) = numContribs
           /\ fit[Mode].numContribs = numContribs
           /\ \A i \in DOMAIN fit[Mode].rset :
                 fit[Mode].rset[i] \in {prior[j] : j \in DOMAIN prior}

\* C5: seeded from a prior with fewer rows than numContribs, the seeded set has
\* numContribs rows: the prior in order, then copies of rows of the prior.
C5_SmallerPriorDuplicated ==
    (pc = "mcFit" /\ fit[Mode].numIter = 0
        /\ Len(prior) > 0 /\ Len(prior) < numContribs)
        => /\ Len(fit[Mode].rset) = numContribs
           /\ SubSeq(fit[Mode].rset, 1, Len(prior)) = prior
           /\ \A i \in DOMAIN fit[Mode].rset :
                 fit[Mode].rset[i] \in {prior[j] : j \in DOMAIN prior}

\* C6: in both modes the running total intensity `it`, kept up to date by
\* subtracting the replaced contribution and adding the trial, equals the sum
\* of the intensities of the current contributions computed from scratch.
C6_IncrementalTotal ==
    \A m \in BOOLEAN :
        fit[m].rset # <<>> => fit[m].it = FromScratch(fit[m].rset)

C6_Witness ==
    /\ pc = "mcFit"
    /\ fit[Mode].numMoves >= 1
    /\ fit[Mode].numNotAccepted >= 1

\* C7: from the same seed and the same trial radii, the low-memory and the
\* cached mode accept and reject the same trials and hold the same
\* contribution set, iteration count, scaling and chi-square, also on return
\* (the values mcFit returns are compared up to the numpy shape of the
\* intensity).
C7_ModesAgree ==
    /\ fit[TRUE].rset = fit[FALSE].rset
    /\ fit[TRUE].numMoves = fit[FALSE].numMoves
    /\ fit[TRUE].numNotAccepted = fit[FALSE].numNotAccepted
    /\ fit[TRUE].numIter = fit[FALSE].numIter
    /\ fit[TRUE].conval = fit[FALSE].conval
    /\ fit[TRUE].sc = fit[FALSE].sc
    /\ fit[TRUE].rset # <<>>
        => [McFitResult(fit[TRUE], error) EXCEPT !.intensityShape = Flat]
            = [McFitResult(fit[FALSE], error) EXCEPT !.intensityShape = Flat]

C7_Witness ==
    /\ pc = "mcFit"
    /\ fit[TRUE].numMoves >= 1
    /\ fit[TRUE].numNotAccepted >= 1
    /\ fit[FALSE].iset # <<>>
    /\ fit[TRUE].iset = <<>>

\* C8: once stop is set, mcFit's loop begins at most one more pass and
\* analyse's loop at most one more repetition, and a run stopped before a
\* repetition began stores no result.
C8_StopIsPrompt ==
    /\ iterationsAfterStop <= 1
    /\ repetitionsAfterStop <= 1
    /\ (repetitionsAfterStop >= 1 => result = <<>>)

\* C9: a dataset whose uncertainties are all zero is rejected at setup with a
\* ConfigurationError, before any seeding or optimizer attempt (stated here
\* for calls that leave the Dataset keyword at 'original').
C9_ZeroUncertaintyRejected ==
    (AllZero(error) /\ kwargs.Dataset = "original")
        => /\ nt = 0
           /\ fit[Mode].rset = <<>>
           /\ pc \in {"returned", "stored", "raised"}
                 => exception = "ConfigurationError"

\* C10: a call of the scaling solver on an identically zero calculated
\* intensity fails with DegenerateFitError instead of returning a scaling.
C10_DegenerateFitFails ==
    (solver.pc = "returned" /\ AllZero(solver.intCalc))
        => solver.exception = "DegenerateFitError"

\* C11: no exception is silently discarded: the ValueError setData detects
\* for a Dataset keyword that is neither 'fit' nor 'original' reaches the
\* caller, and the construction does not carry on as if setData had succeeded.
C11_SetDataErrorPropagates ==
    (kwargs.Dataset = "unknown" /\ pc # "init")
        => (pc = "raised" /\ exception = "ValueError")

\* C12: with startFromMinimum set and no prior supplied, mcFit seeds every one
\* of the numContribs contributions exactly at the lower bound of the radius,
\* so every seeded value lies inside the configured bounds.
C12_SeededAtLowerBound ==
    (pc = "mcFit" /\ fit[Mode].numIter = 0 /\ startFromMinimum /\ Len(prior) = 0)
        => /\ Len(fit[Mode].rset) = numContribs
           /\ \A i \in DOMAIN fit[Mode].rset :
                 /\ fit[Mode].rset[i] = valueRange[1]
                 /\ valueRange[1] <= fit[Mode].rset[i]
                 /\ fit[Mode].rset[i] < valueRange[2]

\* C13: with a prior ensemble `priors` supplied, the first attempt of
\* repetition nr of analyse() is seeded from the supplied slice
\* priors[:, :, nr mod priorCount], also for nr >= priorCount.
C13_SeededFromSuppliedSlice ==
    (pc = "mcFit" /\ fit[Mode].numIter = 0 /\ nt = 1
        /\ priorsflag /\ Len(kwargs.priors) > 0)
        => fit[Mode].rset = kwargs.priors[(nr % Len(kwargs.priors)) + 1]

\* C14: after histogram() has run, the result record still holds what analyse()
\* stored (the contributions of every repetition, the fit intensities and the
\* iteration counts) next to the histogram fields.
C14_AnalyseOutputsKept ==
    pc = "histogrammed"
        => /\ {"contribs", "fitInt", "numIter"} \subseteq DOMAIN result[1]
           /\ "volumeHistogramYMean" \in DOMAIN result[1]
           /\ result[1].contribs = contributions

\* C15: histogram() is repeatable: called again on the same object, with the
\* contributions and the configuration unchanged, it succeeds, and the record
\* it leaves is the one the contributions determine.
C15_HistogramRepeatable ==
    (histogramCalls >= 2 /\ result # <<>>
        /\ "volumeHistogramYMean" \in DOMAIN result[1])
        => /\ pc = "rehistogrammed"
           /\ exception = "none"
           /\ result[1] = histogram(contributions, error, lowMemoryFootprint,
                                    valueRange)

\* C16: for every repetition, the number fractions histogram() stores sum to 1
\* over the contributions of that repetition (to within half a unit of the
\* last decimal place kept for every contribution).
C16_NumberFractionsSumToOne ==
    pc = "histogrammed"
        => \A r \in DOMAIN result[1].numberFraction :
              /\ IsFinite(SumSeq(result[1].numberFraction[r], numContribs))
              /\ Abs(SumSeq(result[1].numberFraction[r], numContribs) - Scale)
                    <= numContribs

\* histogram() has stored the fractions of repetitions that ended on
\* different contribution sets, and the number fractions it normalised were
\* not the volume fractions
C16_Witness ==
    /\ pc = "histogrammed"
    /\ \E r, p \in 1..numReps : contributions[r] # contributions[p]
    /\ \A r \in 1..numReps :
          /\ Abs(result[1].totalNumberFraction[r] - Scale) > numContribs
          /\ result[1].numberFraction[r] # result[1].volumeFraction[r]

\* C17: for every repetition with a finite total volume fraction, the volume
\* fractions of the bins spanning the parameter range sum to the total volume
\* fraction of that repetition: every contribution is counted in exactly one
\* half-open bin.
C17_BinsSumToTotal ==
    pc = "histogrammed"
        => \A r \in DOMAIN result[1].totalVolumeFraction :
              IsFinite(result[1].totalVolumeFraction[r])
                => SumSeq(array([b \in 1..histogramBins |->
                                result[1].volumeHistogramRepetitionsY[b][r]],
                              histogramBins), histogramBins)
                       = result[1].totalVolumeFraction[r]

\* C18: for every bin, the reported volumeHistogramYStd and
\* numberHistogramYStd are the sample standard deviation (divisor
\* numReps - 1) of the per-repetition values of the bin, and the reported
\* means are their arithmetic mean.
C18_SampleStandardDeviation ==
    pc = "histogrammed"
        => \A b \in 1..histogramBins :
              /\ result[1].volumeHistogramYMean[b]
                    = mean(result[1].volumeHistogramRepetitionsY[b])
              /\ result[1].volumeHistogramYStd[b]
                    = std(result[1].volumeHistogramRepetitionsY[b], 1)
              /\ result[1].numberHistogramYMean[b]
                    = mean(result[1].numberHistogramRepetitionsY[b])
              /\ result[1].numberHistogramYStd[b]
                    = std(result[1].numberHistogramRepetitionsY[b], 1)

\* C19: minimumRequiredNumber is strictly positive for every contribution of
\* every repetition whose minimumRequiredVolume is strictly positive, and
\* numberHistogramMinimumRequired is positive for every bin that has members
\* and a positive volumeHistogramMinimumRequired.
C19_MinimumRequiredNumberPositive ==
    pc = "histogrammed"
        => /\ \A r \in 1..numReps : \A c \in 1..numContribs :
                 Gt(result[1].minimumRequiredVolume[r][c], 0)
                    => Gt(result[1].minimumRequiredNumber[r][c], 0)
           /\ \A b \in 1..histogramBins :
                 ( /\ \E r \in 1..numReps : \E c \in 1..numContribs :
                         binMask(contributions[r],
                                 result[1].histogramXLowerEdge, b - 1)[c]
                   /\ Gt(result[1].volumeHistogramMinimumRequired[b], 0) )
                    => Gt(result[1].numberHistogramMinimumRequired[b], 0)

\* C20: no configuration state survives between runs: a later McSAS run that
\* passes neither prior nor priors is seeded as a run without prior, whatever
\* an earlier run in the same process set or derived for them.
C20_NoStateBetweenRuns ==
    (run >= 2 /\ pc = "mcFit" /\ fit[Mode].numIter = 0)
        => /\ Len(prior) = 0
           /\ Len(priors) = 0
           /\ fit[Mode].rset \in InitialSets(<<>>, startFromMinimum, valueRange)

\* C22: in every iteration of mcFit the trial is accepted if and only if its
\* chi-square is strictly smaller than the current one; the current chi-square
\* never increases; on accept the indexed contribution, its volume, the
\* running totals and the scaling become the trial's and the non-acceptance
\* counter is reset to 0.
C22_AcceptIffStrictlySmaller ==
    [][(pc = "mcFit" /\ fit'[Mode].numIter = fit[Mode].numIter + 1)
        => LET s == fit[Mode]
               t == fit'[Mode]
           IN  \A trial \in {Rounded(s, drawn'.rt, drawn'.rounding,
                                     Trial(s, drawn'.rt, error, Mode))} :
               /\ drawn'.rt \in Radii
               /\ ~Gt(t.conval, s.conval)
               /\ (t.numMoves = s.numMoves + 1)
                      <=> Lt(trial.fit.conval, s.conval)
               /\ IF Lt(trial.fit.conval, s.conval)
                  THEN /\ t.rset = [s.rset EXCEPT ![s.ri + 1] = drawn'.rt]
                       /\ t.vset = [s.vset EXCEPT ![s.ri + 1] =
                                         vol(drawn'.rt, compensationExponent)]
                       /\ t.it = trial.itest
                       /\ t.vst = trial.vstest
                       /\ t.sc = trial.fit.sc
                       /\ t.conval = trial.fit.conval
                       /\ t.numMoves = s.numMoves + 1
                       /\ t.numNotAccepted = 0
                  ELSE /\ t.conval = s.conval
                       /\ t.rset = s.rset
                       /\ t.numMoves = s.numMoves
                       /\ t.numNotAccepted = s.numNotAccepted + 1]_vars

C22_Witness ==
    /\ pc = "mcFit"
    /\ fit[Mode].numMoves >= 1
    /\ fit[Mode].numIter > fit[Mode].numMoves
    /\ fit[Mode].numNotAccepted = 0

\* C23: a rejected trial changes nothing but counters: the contribution set
\* (and the prior it may be an alias of), the volumes, the cached intensities,
\* the running totals, the scaling and the chi-square are unchanged; the
\* non-acceptance counter, the iteration counter and the round-robin index
\* advance.
C23_RejectChangesCountersOnly ==
    [][(pc = "mcFit" /\ fit'[Mode].numIter = fit[Mode].numIter + 1
            /\ fit'[Mode].numMoves = fit[Mode].numMoves)
        => /\ fit'[Mode] = [fit[Mode] EXCEPT
                                !.numNotAccepted = @ + 1,
                                !.numIter = @ + 1,
                                !.ri = (@ + 1) % Len(fit[Mode].rset)]
           /\ prior' = prior
           /\ priors' = priors]_vars

C23_Witness ==
    /\ pc = "mcFit"
    /\ fit[Mode].numNotAccepted >= 2
    /\ IsFinite(fit[Mode].conval)

\* C24: after any sequence of accepted replacements the running total vst
\* equals the sum of the squared compensated volumes of the current
\* contributions.
C24_VolumeSquaredTotal ==
    \A m \in BOOLEAN :
        fit[m].rset # <<>>
            => fit[m].vst = SumSquares(fit[m].vset, Len(fit[m].vset))

\* C25: contribution selection is round-robin: the index replaced at iteration
\* k of an attempt (k counted from 0) is k mod N, N being the number of
\* contributions in the set.
C25_RoundRobin ==
    \A m \in BOOLEAN :
        (pc = "mcFit" /\ fit[m].rset # <<>>)
            => fit[m].ri = fit[m].numIter % Len(fit[m].rset)

C25_Witness ==
    /\ pc = "mcFit"
    /\ fit[Mode].numIter = Len(fit[Mode].rset)
    /\ Len(fit[Mode].rset) >= 2
    /\ fit[Mode].ri = 0

\* C26: the iteration loop of mcFit is left exactly when the current
\* chi-square is <= convergenceCriterion or the iteration count has reached
\* maxIterations; the iteration count never exceeds maxIterations and the
\* attempts of a repetition stay within the retry budget.
C26_LoopExit ==
    /\ pc = "mcFit"
        => /\ fit[Mode].numIter <= maxIterations
           /\ ~LoopCondition(fit[Mode])
                <=> ( \/ Le(fit[Mode].conval, convergenceCriterion)
                      \/ fit[Mode].numIter = maxIterations )
    /\ nt <= maxRetries + 1
    /\ nr <= numReps

\* the last attempt the budget allows has spent its iterations without
\* converging, after a repetition was recorded
C26_Witness ==
    /\ pc = "mcFit"
    /\ fit[Mode].numIter = maxIterations
    /\ Gt(fit[Mode].conval, convergenceCriterion)
    /\ IsFinite(fit[Mode].conval)
    /\ nt = maxRetries + 1
    /\ nr >= 1

\* C27: an attempt that converged (chi-square <= convergenceCriterion) is
\* never given up, not even the last attempt the retry budget permits:
\* analyse returns without a result only after an attempt that did not
\* converge.
C27_ConvergedAttemptAccepted ==
    pc = "returned" => ~Le(convergence, convergenceCriterion)

\* C28: the optimizer never modifies the prior it is seeded from: while
\* analyse() runs and after it, every slice of McSASParameters.priors and a
\* supplied McSASParameters.prior hold the values the caller supplied.
C28_PriorUnmodified ==
    pc \notin {"init", "raised"}
        => /\ Len(kwargs.priors) > 0 => priors = kwargs.priors
           /\ Len(kwargs.prior) > 0 => prior = kwargs.prior

\* C29: with random seeding (no prior, startFromMinimum false) the value of
\* every contribution lies within the parameter's bounds, lower inclusive and
\* upper exclusive, in every state of an attempt: at the seed and after every
\* accepted or rejected trial.
C29_ValuesWithinBounds ==
    (pc = "mcFit" /\ Len(prior) = 0 /\ ~startFromMinimum)
        => \A m \in BOOLEAN : \A i \in DOMAIN fit[m].rset :
              /\ valueRange[1] <= fit[m].rset[i]
              /\ fit[m].rset[i] < valueRange[2]

\* a randomly seeded attempt that has accepted a trial and rejected another
\* and holds the largest radius below the upper bound
C29_Witness ==
    /\ pc = "mcFit" /\ Len(prior) = 0 /\ ~startFromMinimum
    /\ fit[Mode].numMoves >= 1
    /\ fit[Mode].numNotAccepted >= 1
    /\ \E i \in DOMAIN fit[Mode].rset :
          \A o \in Radii : o < valueRange[2] => o <= fit[Mode].rset[i]

\* C21: a copy of an algorithm instance made through AlgorithmBase.factory
\* with a parameter compares equal to the instance; setting a parameter value
\* on an instance afterwards leaves the parameter value of every other
\* instance, its copies included, unchanged, and an instance that compared
\* equal before a change of the value compares unequal after it.
C21_CopyIndependent ==
    [][ /\ (algo'.call.name = "copy" /\ Len(algo'.insts) = Len(algo.insts) + 1)
            => AlgorithmEqual(algo', algo'.call.self, Len(algo'.insts))
        /\ (algo'.call.name = "setValue" /\ algo'.insts = algo.insts)
            => \A j \in DOMAIN algo.insts \ {algo'.call.self} :
                  /\ ParameterValue(algo', j) = ParameterValue(algo, j)
                  /\ ( /\ AlgorithmEqual(algo, algo'.call.self, j)
                       /\ algo'.call.value # ParameterValue(algo, algo'.call.self) )
                        => ~AlgorithmEqual(algo', algo'.call.self, j)
      ]_vars

\* the value of an instance was raised by one after it had been copied: the
\* copy still holds the default value and the two compare unequal
C21_Witness ==
    /\ algo.call.name = "setValue"
    /\ \E j \in DOMAIN algo.insts :
          /\ algo.insts[j].copyOf = algo.call.self
          /\ ParameterValue(algo, algo.call.self) = TestParDefault + 1
          /\ ParameterValue(algo, j) = TestParDefault
          /\ ~AlgorithmEqual(algo, algo.call.self, j)

\* C30: DataList.updateData() consults stopFunc after every data item it has
\* handed to updateFunc, whether updateFunc returned or raised for that item.
C30_StopConsultedAfterEveryItem ==
    dataList.stopCalls = Len(dataList.updateCalls)

====
